---- MODULE Spec2Model ----
(***************************************************************************)
(* Models of four of the teaching snippets of Architecture/                *)
(* Software-Architecture: the saga flow (saga_example.py), the hexagonal   *)
(* order service (hexagonal_example.py), the CQRS read model               *)
(* (cqrs_example.py) and the event log (event_sourcing_example.py).        *)
(* Each snippet is a program of its own, so each has its own               *)
(* specification over its own variables; the other programs' variables     *)
(* are left unchanged by it.                                               *)
(***************************************************************************)
EXTENDS Integers, Sequences, FiniteSets, TLC

VARIABLES
    \* saga_example.py
    order,          \* the argument of the current process_order call
    pc,             \* position of the current process_order call
    trace,          \* service functions invoked by the current call, in order
    out,            \* lines printed by the current call, in order
    runs,           \* the finished calls of process_order, oldest first
    \* hexagonal_example.py
    repo_orders,    \* InMemoryOrderRepository.orders
    save_calls,     \* number of InMemoryOrderRepository.save invocations
    hex_last,       \* argument and result of the last OrderService.create_order
    \* cqrs_example.py
    orders,         \* the write model
    orders_by_item, \* the read model (a defaultdict(list))
    cqrs_last,      \* the last CQRS operation called
    \* event_sourcing_example.py
    event_log,      \* the event log
    es_ret,         \* the event returned by the last call
    es_calls        \* number of create_order / ship_order calls made

sagaVars == <<order, pc, trace, out, runs>>
hexVars  == <<repo_orders, save_calls, hex_last>>
cqrsVars == <<orders, orders_by_item, cqrs_last>>
esVars   == <<event_log, es_ret, es_calls>>
vars     == <<sagaVars, hexVars, cqrsVars, esVars>>

\* The variables of the programs other than the one taking a step.
notSaga == <<hexVars, cqrsVars, esVars>>
notHex  == <<sagaVars, cqrsVars, esVars>>
notCqrs == <<sagaVars, hexVars, esVars>>
notEs   == <<sagaVars, hexVars, cqrsVars>>

(***************************************************************************)
(* Bounds and input domains.                                               *)
(***************************************************************************)
MaxRuns == 2
MaxRepoOrders == 3
MaxOrders == 3
MaxEvents == 3

OrderIds == {1, 2}
Amounts == {0, 500, 1000, 1001, 1500}
Quantities == {-1, 0, 1, 3}
Items == {"Book", "Pen"}

Reverse(s) == [i \in 1..Len(s) |-> s[Len(s) + 1 - i]]

(***************************************************************************)
(* saga_example.py                                                         *)
(***************************************************************************)
SagaOrders == [id : OrderIds, amount : Amounts]

\* A printed line: the f-string's text and the values formatted into it.
Fmt(text, args) == [text |-> text, args |-> args]

\* An invocation of a service function and whether it returned normally.
Call(fn, ok) == [fn |-> fn, ok |-> ok]

Threshold == 1000

PaymentRaisesAtThreshold(o) == o.amount >= Threshold
PaymentRaisesAfterFirstRun(o) == o.amount > Threshold \/ Len(runs) > 0
\* payment_service line 5: the condition under which it raises.
PaymentRaises(o) == o.amount > Threshold

\* shipping_service has no raise statement.
ShippingRaises(o) == FALSE

CatchesValueErrorOnly(exc) == exc = "ValueError"
\* line 21: `except Exception` catches every subclass of Exception.
Catches(exc) == exc \in {"Exception", "ValueError", "KeyError"}

HandlerResumes == "l19"
\* line 22: the first statement of the except block.
HandlerEntry == "l22"

NextLineSkipsShipping(l) ==
    CASE l = "l18" -> "l20"
      [] l = "l19" -> "l20"
      [] l = "l20" -> "ret20"
      [] l = "l22" -> "l23"
      [] l = "l23" -> "ret23"
NextLineFallsIntoHandler(l) ==
    CASE l = "l18" -> "l19"
      [] l = "l19" -> "l20"
      [] l = "l20" -> "l22"
      [] l = "l22" -> "l23"
      [] l = "l23" -> "ret23"
\* Sequential control flow inside process_order: the statement after l, or
\* the return point when l is the last statement of its block.
NextLine(l) ==
    CASE l = "l18" -> "l19"
      [] l = "l19" -> "l20"
      [] l = "l20" -> "ret20"
      [] l = "l22" -> "l23"
      [] l = "l23" -> "ret23"

\* Where control goes when a statement of the try block raises exc.
Unwind(exc) == IF Catches(exc) THEN HandlerEntry ELSE "raised"

SagaInit ==
    /\ order \in SagaOrders
    /\ pc = "idle"
    /\ trace = <<>>
    /\ out = <<>>
    /\ runs = <<>>

\* line 26 / line 16: the caller enters process_order(order).
ProcessOrderCall ==
    /\ pc = "idle"
    /\ pc' = "l18"
    /\ UNCHANGED <<order, trace, out, runs, notSaga>>

\* line 18: payment_service(order), lines 3-7.
PaymentService ==
    /\ pc = "l18"
    /\ out' = Append(out, Fmt("Processing payment for order {}", <<order.id>>))
    /\ trace' = Append(trace, Call("payment_service", ~PaymentRaises(order)))
    /\ pc' = IF PaymentRaises(order) THEN Unwind("Exception") ELSE NextLine("l18")
    /\ UNCHANGED <<order, runs, notSaga>>

\* line 19: shipping_service(order), lines 9-11.
ShippingService ==
    /\ pc = "l19"
    /\ out' = Append(out, Fmt("Shipping order {}", <<order.id>>))
    /\ trace' = Append(trace, Call("shipping_service", ~ShippingRaises(order)))
    /\ pc' = IF ShippingRaises(order) THEN Unwind("Exception") ELSE NextLine("l19")
    /\ UNCHANGED <<order, runs, notSaga>>

\* line 20: print("Order completed successfully").
PrintCompleted ==
    /\ pc = "l20"
    /\ out' = Append(out, Fmt("Order completed successfully", <<>>))
    /\ pc' = NextLine("l20")
    /\ UNCHANGED <<order, trace, runs, notSaga>>

\* line 22: compensate_payment(order), lines 13-14.
CompensatePayment ==
    /\ pc = "l22"
    /\ out' = Append(out, Fmt("Refunding order {}", <<order.id>>))
    /\ trace' = Append(trace, Call("compensate_payment", TRUE))
    /\ pc' = NextLine("l22")
    /\ UNCHANGED <<order, runs, notSaga>>

\* line 23: print("Order failed, compensation triggered").
PrintFailed ==
    /\ pc = "l23"
    /\ out' = Append(out, Fmt("Order failed, compensation triggered", <<>>))
    /\ pc' = NextLine("l23")
    /\ UNCHANGED <<order, trace, runs, notSaga>>

Returned == pc \in {"ret20", "ret23"}

\* The saga state the position of process_order stands for.
Status ==
    CASE pc = "idle" -> "NotStarted"
      [] pc \in {"l18", "l19"} -> "Running"
      [] pc \in {"l20", "ret20"} -> "Completed"
      [] pc = "l22" -> "Compensating"
      [] pc \in {"l23", "ret23"} -> "Compensated"
      [] OTHER -> "Aborted"

\* What the caller observes of a finished call.
RunResult == [order |-> order, status |-> Status, trace |-> trace, out |-> out]

\* The caller, back from process_order, calls it again with some order.
ProcessOrderAgain ==
    /\ Returned
    /\ Len(runs) < MaxRuns
    /\ runs' = Append(runs, RunResult)
    /\ order' \in SagaOrders
    /\ pc' = "idle"
    /\ trace' = <<>>
    /\ out' = <<>>
    /\ UNCHANGED notSaga

\* lines 18-19: the forward steps, in the order process_order calls them.
ForwardSteps == <<"payment_service", "shipping_service">>

\* lines 13-14: the only compensation defined is the one of the payment step;
\* the shipping step has none.
HasCompensation(fn) == fn = "payment_service"
CompensationOf(fn) == "compensate_payment"

SagaNext ==
    \/ ProcessOrderCall
    \/ PaymentService
    \/ ShippingService
    \/ PrintCompleted
    \/ CompensatePayment
    \/ PrintFailed
    \/ ProcessOrderAgain

(***************************************************************************)
(* hexagonal_example.py                                                    *)
(***************************************************************************)
HexOrders == [id : OrderIds, quantity : Quantities]

NoCall == [arg |-> <<>>, result |-> "none", value |-> <<>>]

RejectsNegativeOnly(order_data) == order_data.quantity < 0
\* OrderService.create_order line 10: the business rule.
Rejects(order_data) == order_data.quantity <= 0

\* InMemoryOrderRepository.save line 20: self.orders.append(order_data).
Save(list, order_data) == Append(list, order_data)

HexInit ==
    /\ repo_orders = <<>>
    /\ save_calls = 0
    /\ hex_last = NoCall

\* OrderService.create_order(order_data), with the repository.save it calls.
CreateOrder(order_data) ==
    /\ IF Rejects(order_data)
       THEN /\ hex_last' = [arg |-> <<order_data>>, result |-> "ValueError",
                            value |-> <<>>]
            /\ UNCHANGED <<repo_orders, save_calls>>
       ELSE /\ Len(repo_orders) < MaxRepoOrders
            /\ repo_orders' = Save(repo_orders, order_data)
            /\ save_calls' = save_calls + 1
            /\ hex_last' = [arg |-> <<order_data>>, result |-> "returned",
                            value |-> <<order_data>>]
    /\ UNCHANGED notHex

HexNext == \E order_data \in HexOrders : CreateOrder(order_data)

(***************************************************************************)
(* cqrs_example.py                                                         *)
(***************************************************************************)
EmptyIndex == [it \in {} |-> <<>>]

ClearKeeps(index) == index
\* line 14: orders_by_item.clear().
Clear(index) == EmptyIndex

\* line 16: orders_by_item[o["item"]].append(o["id"]); the defaultdict makes
\* the key, with an empty list, on its first access.
IndexAdd(index, o) ==
    IF o.item \in DOMAIN index
    THEN [index EXCEPT ![o.item] = Append(@, o.id)]
    ELSE [it \in DOMAIN index \cup {o.item} |->
            IF it = o.item THEN <<o.id>> ELSE index[it]]

\* lines 15-16: the loop over the first n orders of the write model.
RECURSIVE IndexLoop(_, _, _)
IndexLoop(index, os, n) ==
    IF n = 0 THEN index ELSE IndexAdd(IndexLoop(index, os, n - 1), os[n])

CqrsInit ==
    /\ orders = <<>>
    /\ orders_by_item = EmptyIndex
    /\ cqrs_last = "none"

\* create_order(order_id, item), lines 7-8.
CqrsCreateOrder(order_id, item) ==
    /\ Len(orders) < MaxOrders
    /\ orders' = Append(orders, [id |-> order_id, item |-> item])
    /\ cqrs_last' = "create_order"
    /\ UNCHANGED <<orders_by_item, notCqrs>>

\* update_read_model(), lines 13-16.
UpdateReadModel ==
    /\ orders_by_item' = IndexLoop(Clear(orders_by_item), orders, Len(orders))
    /\ cqrs_last' = "update_read_model"
    /\ UNCHANGED <<orders, notCqrs>>

CqrsNext ==
    \/ \E order_id \in OrderIds, item \in Items : CqrsCreateOrder(order_id, item)
    \/ UpdateReadModel

(***************************************************************************)
(* event_sourcing_example.py                                               *)
(***************************************************************************)
OrderCreated(order_id, item) ==
    [type |-> "OrderCreated", order_id |-> order_id, item |-> item]

OrderShipped(order_id) ==
    [type |-> "OrderShipped", order_id |-> order_id]

LogPrepend(log, event) == <<event>> \o log
\* lines 7 and 12: event_log.append(event).
LogAppend(log, event) == Append(log, event)

EsInit ==
    /\ event_log = <<>>
    /\ es_ret = <<>>
    /\ es_calls = 0

\* create_order(order_id, item), lines 5-8.
EsCreateOrder(order_id, item) ==
    /\ es_calls < MaxEvents
    /\ event_log' = LogAppend(event_log, OrderCreated(order_id, item))
    /\ es_ret' = <<OrderCreated(order_id, item)>>
    /\ es_calls' = es_calls + 1
    /\ UNCHANGED notEs

\* ship_order(order_id), lines 10-13.
ShipOrder(order_id) ==
    /\ es_calls < MaxEvents
    /\ event_log' = LogAppend(event_log, OrderShipped(order_id))
    /\ es_ret' = <<OrderShipped(order_id)>>
    /\ es_calls' = es_calls + 1
    /\ UNCHANGED notEs

EsNext ==
    \/ \E order_id \in OrderIds, item \in Items : EsCreateOrder(order_id, item)
    \/ \E order_id \in OrderIds : ShipOrder(order_id)

(***************************************************************************)
(* The specifications: one per program.  A program that is not the one     *)
(* being run stays in its initial state; for the saga that is the call of  *)
(* line 26, not yet entered.                                               *)
(***************************************************************************)
SagaIdle ==
    /\ order = [id |-> 1, amount |-> 1500]
    /\ pc = "idle"
    /\ trace = <<>>
    /\ out = <<>>
    /\ runs = <<>>

SagaSpecInit == SagaInit /\ HexInit /\ CqrsInit /\ EsInit
IdleInit == SagaIdle /\ HexInit /\ CqrsInit /\ EsInit

SagaSpec == SagaSpecInit /\ [][SagaNext]_vars
\* process_order is synchronous straight-line code: a call that can take its
\* next step takes it.
SagaFairSpec == SagaSpecInit /\ [][SagaNext]_vars /\ WF_vars(SagaNext)
HexSpec == IdleInit /\ [][HexNext]_vars
CqrsSpec == IdleInit /\ [][CqrsNext]_vars
EsSpec == IdleInit /\ [][EsNext]_vars

(***************************************************************************)
(* Properties of the saga flow.                                            *)
(***************************************************************************)
IsForward(fn) == \E k \in DOMAIN ForwardSteps : ForwardSteps[k] = fn
Names(t) == [i \in 1..Len(t) |-> t[i].fn]

\* The forward steps of t that succeeded, and the compensations t ran.
Succeeded(t) == SelectSeq(t, LAMBDA c : IsForward(c.fn) /\ c.ok)
Compensations(t) == Names(SelectSeq(t, LAMBDA c : ~IsForward(c.fn)))
AllOk(t) == \A i \in DOMAIN t : t[i].ok

\* The compensations of the succeeded steps of t, last succeeded first.
RequiredCompensations(t) ==
    LET undo == SelectSeq(Succeeded(t), LAMBDA c : HasCompensation(c.fn))
    IN  Reverse([i \in 1..Len(undo) |-> CompensationOf(undo[i].fn)])

IsPrefix(s, t) == Len(s) <= Len(t) /\ SubSeq(t, 1, Len(s)) = s

FailedLine == Fmt("Order failed, compensation triggered", <<>>)
Terminal == {"Completed", "Compensated"}

\* C1: when a forward step fails, the compensations that run are exactly those
\* of the steps that had succeeded before it, in reverse order, and none runs
\* for a step that did not succeed; when the payment step itself fails the
\* compensation list is empty and the outcome is Compensated.
C1_CompensationsMirrorSucceededSteps ==
    /\ IsPrefix(Compensations(trace), RequiredCompensations(trace))
    /\ Status = "Compensated" =>
          Compensations(trace) = RequiredCompensations(trace)
    /\ (Returned /\ order.amount = 1500) =>
          (Compensations(trace) = <<>> /\ Status = "Compensated")

\* C2: when every forward step succeeds, process_order has invoked payment and
\* then shipping, once each and in that order, ends Completed and runs no
\* compensation; an order of amount 500 is such an order.
C2_AllStepsSucceedCompletes ==
    /\ (Returned /\ AllOk(trace)) =>
          /\ trace = <<Call("payment_service", TRUE),
                       Call("shipping_service", TRUE)>>
          /\ Status = "Completed"
          /\ Compensations(trace) = <<>>
    /\ (Returned /\ order.amount = 500) => (AllOk(trace) /\ Status = "Completed")

C2_Witness ==
    /\ pc = "ret20"
    /\ order.amount = 500
    /\ Names(trace) = ForwardSteps

\* C3: once a forward step has failed, no later forward step is invoked in
\* that run.
C3_NoForwardStepAfterFailure ==
    \A i, j \in DOMAIN trace :
        (i < j /\ IsForward(trace[i].fn) /\ ~trace[i].ok) => ~IsForward(trace[j].fn)

C3_Witness ==
    /\ Returned
    /\ trace[1] = Call("payment_service", FALSE)
    /\ Len(trace) > 1

\* A step of one run of process_order (the caller's next call starts a new
\* run, from NotStarted).
LegalTransition ==
    \/ Status' = Status
    \/ Status = "NotStarted" /\ Status' = "Running"
    \/ Status = "Running" /\ Status' = "Completed" /\ AllOk(trace')
          /\ Names(trace') = ForwardSteps
    \/ Status = "Running" /\ Status' = "Compensating" /\ ~AllOk(trace')
    \/ Status = "Compensating" /\ Status' = "Compensated"
    \/ Status \in Terminal /\ Status' = "NotStarted" /\ Len(runs') = Len(runs) + 1

TerminalQuiet ==
    (Status \in Terminal /\ runs' = runs) => (trace' = trace /\ Status' = Status)

\* C4: a run of process_order follows only the transitions NotStarted->Running,
\* Running->Completed (all steps succeeded), Running->Compensating (a step
\* failed) and Compensating->Compensated, always ends in Completed or
\* Compensated, and executes no step or compensation after that.
C4_StateMachine ==
    /\ [][LegalTransition /\ TerminalQuiet]_vars
    /\ (Status = "NotStarted") ~> (Status \in Terminal)

C4_Witness ==
    /\ pc = "ret23"
    /\ Len(runs) = 1
    /\ runs[1].status = "Completed"

\* C5: a failure of a forward step never propagates out of process_order: the
\* call returns normally, and the failure is reported only once the
\* compensations of the steps that had succeeded have run, none running after
\* the report.
C5_FailureCaughtAndReportedLast ==
    /\ pc # "raised"
    /\ (Returned /\ ~AllOk(trace)) => (pc = "ret23" /\ out[Len(out)] = FailedLine)
    /\ \A i \in DOMAIN out :
          out[i] = FailedLine =>
             /\ i = Len(out)
             /\ ~AllOk(trace)
             /\ IsPrefix(RequiredCompensations(trace), Compensations(trace))

C5_Witness ==
    /\ pc = "ret23"
    /\ order.amount = 1500
    /\ out[Len(out)] = FailedLine

\* The finished runs, the current one included once it has returned.
AllRuns == IF Returned THEN Append(runs, RunResult) ELSE runs

\* C6: two runs of process_order with the same order have the same outcome,
\* the same trace and the same output, whatever ran in between.
C6_SameOrderSameResult ==
    \A i, j \in DOMAIN AllRuns :
        AllRuns[i].order = AllRuns[j].order => AllRuns[i] = AllRuns[j]

C6_Witness ==
    /\ Len(AllRuns) >= 2
    /\ AllRuns[1].order = AllRuns[2].order
    /\ AllRuns[1].status = "Compensated"

\* C7: payment_service fails exactly when the amount is above 1000 (it
\* succeeds at 1000), and shipping_service never fails.
C7_PaymentFailsAboveThreshold ==
    /\ Len(trace) >= 1 =>
          trace[1] = Call("payment_service", order.amount <= 1000)
    /\ \A i \in DOMAIN trace : trace[i].fn = "shipping_service" => trace[i].ok

C7_Witness ==
    /\ order.amount = 1000
    /\ Len(trace) = 2
    /\ trace[1].ok
    /\ trace[2] = Call("shipping_service", TRUE)

DerivedIndex(os) ==
    [it \in {os[i].item : i \in DOMAIN os} |->
        LET mine == SelectSeq(os, LAMBDA o : o.item = it)
        IN  [i \in 1..Len(mine) |-> mine[i].id]]

\* C9: right after update_read_model the read model is the index derived from
\* the write model, whatever calls came before.
C9_ReadModelMatchesWriteModel ==
    cqrs_last = "update_read_model" => orders_by_item = DerivedIndex(orders)

C9_Witness ==
    /\ cqrs_last = "update_read_model"
    /\ Len(orders) >= 3
    /\ orders[1].item = orders[3].item
    /\ orders[1].item # orders[2].item

(***************************************************************************)
(* Properties of the event log.                                            *)
(***************************************************************************)
\* C10: the event log is append-only: every call appends exactly the event it
\* returns at the end of the log, the events logged before keep their
\* positions and contents, and the log is as long as the number of calls.
C10_EventLogAppendOnly ==
    /\ [](Len(event_log) = es_calls)
    /\ [][/\ es_calls' = es_calls + 1
          /\ Len(event_log') = Len(event_log) + 1
          /\ SubSeq(event_log', 1, Len(event_log)) = event_log
          /\ es_ret' = <<event_log'[Len(event_log')]>>]_vars

C10_Witness ==
    /\ es_calls >= 2
    /\ event_log[1] = OrderCreated(1, "Book")
    /\ event_log[2] = OrderShipped(1)
    /\ es_ret = <<event_log[Len(event_log)]>>

====
